---------------------------- MODULE Spec2Model ----------------------------
(***************************************************************************)
(* A model of greedypacker's BinManager (src/greedypacker/binmanager.py):  *)
(* the pending-item queue, the ordered list of open bins, the two          *)
(* bin-selection policies and the execute loop.                            *)
(*                                                                         *)
(* The four placement backends (shelf, guillotine, maximal_rectangles,     *)
(* skyline) are imported by binmanager.py but are not part of the source   *)
(* at hand; they are modelled from the Bin Backend contract of the         *)
(* specification (section 6): insert(item, heuristic) reports success and  *)
(* mutates the bin only on success, the feasibility queries are read-only, *)
(* and the free-space enumerations are ordered.  Each backend is taken     *)
(* with its default heuristic; free-rectangle merging, the split heuristic *)
(* and the wastemap, which no policy of the manager reads, are left out.   *)
(* Item sizes are positive.                                                *)
(***************************************************************************)
EXTENDS Integers, Sequences, FiniteSets

VARIABLES
    bin_width,      \* self.bin_width
    bin_height,     \* self.bin_height
    bin_sel_algo,   \* self.bin_sel_algo: "bin_first_fit" or "bin_best_fit"
    algorithm,      \* self.algorithm
    rotation,       \* self.rotation
    sorting,        \* self.sorting
    items,          \* self.items, the pending queue
    bins,           \* self.bins, the open bins in creation order
    submitted,      \* number of items handed to add_items so far (item identity)
    pc,             \* "idle" (between calls) or "execute" (inside execute's loop)
    idx,            \* position of execute's for-loop in self.items
    executes,       \* number of execute calls started
    failed,         \* TRUE when some execute call was ended by an exception
    last            \* the most recent policy invocation: its item, the bin list
                    \* before it, the backend insert calls it made, its outcome

vars == <<bin_width, bin_height, bin_sel_algo, algorithm, rotation, sorting,
          items, bins, submitted, pc, idx, executes, failed, last>>

---------------------------------------------------------------------------
(* Bounds of the model. *)

\* Items submitted over the whole run.
MaxItems == 3
\* Items handed to one add_items call.
MaxBatch == 2
\* Calls of execute.
MaxExecutes == 2

\* Bin dimensions the constructor is given.
BinSizes == { <<3, 2>> }
\* Item dimensions <<width, height>> a caller submits.
ItemSizes == { <<2, 1>>, <<1, 2>>, <<2, 2>>, <<4, 1>> }

Algorithms == { "guillotine", "maximal_rectangle", "shelf", "skyline" }
Policies == { "bin_first_fit", "bin_best_fit" }

---------------------------------------------------------------------------
(* Helpers. *)

\* The least element of a set of positions, 0 when the set is empty.
FirstOf(hits) == IF hits = {} THEN 0 ELSE CHOOSE i \in hits : \A j \in hits : i <= j

Area(it) == it.width * it.height


---------------------------------------------------------------------------
(* Items.  An Item has a requested width and height; id is its identity    *)
(* (the order of submission), which Python keeps as object identity.       *)

Item(i, size) == [id |-> i, width |-> size[1], height |-> size[2]]

\* The item as the backend sees it when it places it turned by 90 degrees.
Rotated(it) == [id |-> it.id, width |-> it.height, height |-> it.width]

---------------------------------------------------------------------------
(* The placement backends, from the Bin Backend contract of the            *)
(* specification.  A bin is one record for all four variants:              *)
(*   items            ids of the items the bin accepted, in order          *)
(*   freerects        guillotine / maximal_rectangle: free rectangles      *)
(*   skyline          skyline: segments [x, y, width], left to right       *)
(*   shelves          shelf: shelves [y (height), available_width]         *)
(*   available_height shelf: height left above the last shelf              *)
(* A shelf bin's x is bin_width.  Every bin is built with the manager's    *)
(* rotation flag, so the backend reads rotation where it allows turning.   *)

EmptyBin ==
    [items |-> << >>, freerects |-> << >>, skyline |-> << >>,
     shelves |-> << >>, available_height |-> 0]

\* rect.area / shelf.area
RectArea(r) == r.width * r.height

ShelfArea(sh) == sh.available_width * sh.y

\* The orientation a backend places the item in within a w x h space: as
\* given when that fits, turned when only that fits and turning is allowed.
FitsAsIs(it, w, h) == it.width <= w /\ it.height <= h

FitsTurned(it, w, h) == rotation /\ it.height <= w /\ it.width <= h

Oriented(it, w, h) == IF FitsAsIs(it, w, h) THEN it ELSE Rotated(it)

\* guillotine / maximal_rectangle feasibility query
item_fits_rect(it, r) ==
    FitsAsIs(it, r.width, r.height) \/ FitsTurned(it, r.width, r.height)

\* shelf feasibility query
item_fits_shelf(it, sh) ==
    FitsAsIs(it, sh.available_width, sh.y) \/ FitsTurned(it, sh.available_width, sh.y)

\* for rect in binn.freerects: if binn.item_fits_rect(item, rect): ... break
\* The position of the first free rectangle the item fits, 0 for none.
FirstFittingRect(fs, it) == FirstOf({ i \in 1..Len(fs) : item_fits_rect(it, fs[i]) })

\* for shelf in binn.shelves: if binn.item_fits_shelf(item, shelf): ... break
\* The position of the first shelf the item fits, 0 for none.
FirstFittingShelf(shs, it) == FirstOf({ i \in 1..Len(shs) : item_fits_shelf(it, shs[i]) })

NonEmptyRect(r) == r.width > 0 /\ r.height > 0

\* s without its k-th element
RemoveAt(s, k) == [i \in 1..(Len(s) - 1) |-> IF i < k THEN s[i] ELSE s[i + 1]]

\* The free rectangles after a p.width x p.height item went to the
\* bottom-left corner of the k-th: that one is cut into the part right of
\* the item and the part above it.
GuillotineCut(fs, k, p) ==
    RemoveAt(fs, k)
    \o SelectSeq(
         << [x |-> fs[k].x + p.width, y |-> fs[k].y,
             width |-> fs[k].width - p.width, height |-> p.height],
            [x |-> fs[k].x, y |-> fs[k].y + p.height,
             width |-> fs[k].width, height |-> fs[k].height - p.height] >>,
         NonEmptyRect)

\* Guillotine insert into the k-th free rectangle (0: the item fits none).
GuillotinePlace(b, it, k) ==
    IF k = 0 THEN [ok |-> FALSE, bin |-> b]
    ELSE [ok |-> TRUE,
          bin |-> [b EXCEPT
              !.items = Append(@, it.id),
              !.freerects = GuillotineCut(@, k,
                  Oriented(it, b.freerects[k].width, b.freerects[k].height))]]

\* Guillotine: the item goes into the first free rectangle it fits.
GuillotineInsert(b, it) ==
    GuillotinePlace(b, it, FirstFittingRect(b.freerects, it))

Intersects(f, p) ==
    /\ p.x < f.x + f.width /\ f.x < p.x + p.width
    /\ p.y < f.y + f.height /\ f.y < p.y + p.height

Contains(outer, inner) ==
    /\ outer.x <= inner.x /\ inner.x + inner.width <= outer.x + outer.width
    /\ outer.y <= inner.y /\ inner.y + inner.height <= outer.y + outer.height

\* The maximal parts of free rectangle f around the placed rectangle p.
SplitAround(f, p) ==
    IF ~Intersects(f, p) THEN << f >>
    ELSE SelectSeq(
           << [x |-> f.x, y |-> f.y, width |-> p.x - f.x, height |-> f.height],
              [x |-> p.x + p.width, y |-> f.y,
               width |-> f.x + f.width - (p.x + p.width), height |-> f.height],
              [x |-> f.x, y |-> f.y, width |-> f.width, height |-> p.y - f.y],
              [x |-> f.x, y |-> p.y + p.height,
               width |-> f.width, height |-> f.y + f.height - (p.y + p.height)] >>,
           NonEmptyRect)

RECURSIVE SplitAll(_, _)
SplitAll(fs, p) ==
    IF fs = << >> THEN << >> ELSE SplitAround(Head(fs), p) \o SplitAll(Tail(fs), p)

RECURSIVE Prune(_, _)
\* fs from position i on without the rectangles that lie inside another one
\* of fs (of equal ones the first stays).
Prune(fs, i) ==
    IF i > Len(fs) THEN << >>
    ELSE (IF \A j \in 1..Len(fs) :
                (j /= i /\ Contains(fs[j], fs[i])) => (fs[j] = fs[i] /\ i < j)
          THEN << fs[i] >> ELSE << >>)
         \o Prune(fs, i + 1)

\* The rectangle an item oriented as o takes at the corner of free rectangle r.
PlacedAt(r, o) == [x |-> r.x, y |-> r.y, width |-> o.width, height |-> o.height]

\* Maximal-rectangles insert into the k-th free rectangle (0: the item fits
\* none): every free rectangle the item overlaps is replaced by its maximal
\* remainders.
MaximalRectanglePlace(b, it, k) ==
    IF k = 0 THEN [ok |-> FALSE, bin |-> b]
    ELSE [ok |-> TRUE,
          bin |-> [b EXCEPT
              !.items = Append(@, it.id),
              !.freerects = Prune(SplitAll(@,
                  PlacedAt(b.freerects[k],
                      Oriented(it, b.freerects[k].width, b.freerects[k].height))), 1)]]

\* Maximal rectangles: the item goes to the bottom-left corner of the first
\* free rectangle it fits.
MaximalRectangleInsert(b, it) ==
    MaximalRectanglePlace(b, it, FirstFittingRect(b.freerects, it))

\* Skyline: the height of the skyline over column c (0-based).
HeightAt(sky, c) ==
    LET i == CHOOSE i \in 1..Len(sky) : sky[i].x <= c /\ c < sky[i].x + sky[i].width
    IN  sky[i].y

RECURSIVE SegmentsFrom(_, _)
\* The segments of the height profile hs (one height per column) from
\* column c on: maximal runs of equal height.
SegmentsFrom(hs, c) ==
    IF c > Len(hs) THEN << >>
    ELSE LET same == { d \in c..Len(hs) : \A e \in c..d : hs[e] = hs[c] }
             stop == CHOOSE d \in same : \A e \in same : e <= d
         IN  << [x |-> c - 1, y |-> hs[c], width |-> stop - c + 1] >>
             \o SegmentsFrom(hs, stop + 1)

\* skyline feasibility query: whether a w x h item fits with its left edge
\* on segment i, and the top-y it would reach there.
\* The highest point of the skyline under columns x .. x + w - 1.
SkylineBase(sky, x, w) ==
    CHOOSE m \in { HeightAt(sky, c) : c \in x..(x + w - 1) } :
        \A c \in x..(x + w - 1) : HeightAt(sky, c) <= m

\* An item h high resting at height base: whether it stays inside the bin,
\* and its top-y.
FitOnBase(base, h) ==
    IF base + h > bin_height THEN [fits |-> FALSE, y |-> 0]
    ELSE [fits |-> TRUE, y |-> base + h]

check_fit(b, w, h, i) ==
    IF b.skyline[i].x + w > bin_width THEN [fits |-> FALSE, y |-> 0]
    ELSE FitOnBase(SkylineBase(b.skyline, b.skyline[i].x, w), h)

\* The placements the skyline backend itself considers for an insert: every
\* segment, the item as given and, when the bin allows rotation, turned.
SkylinePlacements(b, it) ==
    { pl \in [seg : 1..Len(b.skyline), turned : BOOLEAN] :
        /\ pl.turned => rotation
        /\ check_fit(b, IF pl.turned THEN it.height ELSE it.width,
                        IF pl.turned THEN it.width ELSE it.height, pl.seg).fits }

PlacementTop(b, it, pl) ==
    check_fit(b, IF pl.turned THEN it.height ELSE it.width,
                 IF pl.turned THEN it.width ELSE it.height, pl.seg).y

\* The order in which the skyline backend prefers placements: the lowest
\* top-y, then the leftmost segment, then the unturned item.
PlacementBefore(b, it, p, q) ==
    \/ PlacementTop(b, it, p) < PlacementTop(b, it, q)
    \/ /\ PlacementTop(b, it, p) = PlacementTop(b, it, q)
       /\ \/ p.seg < q.seg
          \/ p.seg = q.seg /\ (p.turned => q.turned)

\* The skyline after a w-wide item was put at x and reaches up to top.
SkylineRaise(sky, x, w, top) ==
    SegmentsFrom([c \in 1..bin_width |->
                     IF x <= c - 1 /\ c - 1 < x + w THEN top
                     ELSE HeightAt(sky, c - 1)], 1)

\* Skyline insert at placement pl.
SkylinePlace(b, it, pl) ==
    [ok |-> TRUE,
     bin |-> [b EXCEPT
         !.items = Append(@, it.id),
         !.skyline = SkylineRaise(@, b.skyline[pl.seg].x,
                         IF pl.turned THEN it.height ELSE it.width,
                         PlacementTop(b, it, pl))]]

\* Skyline insert among the placements pls.
SkylineChoose(b, it, pls) ==
    IF pls = {} THEN [ok |-> FALSE, bin |-> b]
    ELSE SkylinePlace(b, it,
            CHOOSE p \in pls : \A q \in pls : p = q \/ PlacementBefore(b, it, p, q))

\* Skyline insert: the backend's preferred placement, if there is any.
SkylineInsert(b, it) == SkylineChoose(b, it, SkylinePlacements(b, it))

\* Shelf: the item goes on the first shelf it fits; otherwise a new shelf of
\* the item's height is opened in the height that is left, if it fits there.
ShelfPlace(b, it, k) ==
    IF k > 0
    THEN [ok |-> TRUE,
          bin |-> [b EXCEPT
              !.items = Append(@, it.id),
              !.shelves[k].available_width =
                  @ - Oriented(it, b.shelves[k].available_width, b.shelves[k].y).width]]
    ELSE IF \/ FitsAsIs(it, bin_width, b.available_height)
            \/ FitsTurned(it, bin_width, b.available_height)
    THEN [ok |-> TRUE,
          bin |-> [b EXCEPT
              !.items = Append(@, it.id),
              !.shelves = Append(@,
                  [y |-> Oriented(it, bin_width, b.available_height).height,
                   available_width |->
                       bin_width - Oriented(it, bin_width, b.available_height).width]),
              !.available_height =
                  @ - Oriented(it, bin_width, b.available_height).height]]
    ELSE [ok |-> FALSE, bin |-> b]

ShelfInsert(b, it) ==
    ShelfPlace(b, it, FirstFittingShelf(b.shelves, it))

\* binn.insert(item, self.heuristic) of the configured backend: whether the
\* item was placed, and the bin afterwards (unchanged on a refusal).
Insert(b, it) ==
    CASE algorithm = "guillotine" -> GuillotineInsert(b, it)
      [] algorithm = "maximal_rectangle" -> MaximalRectangleInsert(b, it)
      [] algorithm = "skyline" -> SkylineInsert(b, it)
      [] algorithm = "shelf" -> ShelfInsert(b, it)

---------------------------------------------------------------------------
(* BinManager. *)

\* _bin_factory: a new, empty bin of the configured algorithm and dimensions.
bin_factory ==
    CASE algorithm \in { "guillotine", "maximal_rectangle" } ->
            [EmptyBin EXCEPT !.freerects =
                << [x |-> 0, y |-> 0, width |-> bin_width, height |-> bin_height] >>]
      [] algorithm = "skyline" ->
            [EmptyBin EXCEPT !.skyline = << [x |-> 0, y |-> 0, width |-> bin_width] >>]
      [] algorithm = "shelf" ->
            [EmptyBin EXCEPT !.available_height = bin_height]

\* A sort that is not stable: e goes in front of the elements of its area.
SortedInsertUnstable(sorted, e) ==
    LET n == Cardinality({ i \in 1..Len(sorted) : Area(sorted[i]) > Area(e) })
    IN  SubSeq(sorted, 1, n) \o << e >> \o SubSeq(sorted, n + 1, Len(sorted))

\* Where list.sort(key=area, reverse=True) puts e in an already sorted
\* list: behind every element whose area is at least e's (the sort is stable).
SortedInsert(sorted, e) ==
    LET n == Cardinality({ i \in 1..Len(sorted) : Area(sorted[i]) >= Area(e) })
    IN  SubSeq(sorted, 1, n) \o << e >> \o SubSeq(sorted, n + 1, Len(sorted))

RECURSIVE SortByArea(_)
\* self.items.sort(key=lambda el: el.width*el.height, reverse=True)
SortByArea(s) ==
    IF s = << >> THEN << >>
    ELSE SortedInsert(SortByArea(SubSeq(s, 1, Len(s) - 1)), s[Len(s)])

\* add_items: the queue after a batch is appended.
QueueAfterAdd(queue, batch) ==
    IF sorting THEN SortByArea(queue \o batch) ELSE queue \o batch

\* One backend insert call as the policy made it: on which bin, and its answer.
Call(i, ok) == [bin |-> i, ok |-> ok]

\* What a policy invocation leaves: the bin list, the insert calls it made
\* in order, whether it raised, and the value it returned.
Outcome(bs, calls, raised, ret) ==
    [bins |-> bs, calls |-> calls, raised |-> raised, ret |-> ret]

\* binn.insert(item) on the bin at position i of bs, and the policy's
\* return of that call's answer.
Inserted(bs, i, r) ==
    Outcome([bs EXCEPT ![i] = r.bin], << Call(i, r.ok) >>, FALSE, r.ok)

InsertInto(bs, i, it) == Inserted(bs, i, Insert(bs[i], it))

\* self.bins.append(self._bin_factory()); self.bins[-1].insert(item, ...)
\* The answer of that insert is dropped.
Opened(bs, calls, r, ret) ==
    Outcome(Append(bs, r.bin), Append(calls, Call(Len(bs) + 1, r.ok)), FALSE, ret)

OpenNewBin(bs, calls, it, ret) == Opened(bs, calls, Insert(bin_factory, it), ret)

RECURSIVE FirstFitLoopReversed(_, _, _, _)
\* The loop walking the bins from the newest to the oldest:
\* for binn in reversed(self.bins).
FirstFitLoopReversed(bs, it, i, calls) ==
    IF i > Len(bs) THEN [result |-> FALSE, bins |-> bs, calls |-> calls]
    ELSE IF Insert(bs[Len(bs) + 1 - i], it).ok
    THEN [result |-> TRUE,
          bins |-> [bs EXCEPT ![Len(bs) + 1 - i] = Insert(bs[Len(bs) + 1 - i], it).bin],
          calls |-> Append(calls, Call(Len(bs) + 1 - i, TRUE))]
    ELSE FirstFitLoopReversed(bs, it, i + 1, Append(calls, Call(Len(bs) + 1 - i, FALSE)))

RECURSIVE FirstFitLoop(_, _, _, _)
\* for binn in self.bins: result = binn.insert(item); if result: break
\* The loop from bin i on, after the calls made so far; result is the
\* answer of the last insert.
FirstFitLoop(bs, it, i, calls) ==
    IF i > Len(bs) THEN [result |-> FALSE, bins |-> bs, calls |-> calls]
    ELSE IF Insert(bs[i], it).ok
    THEN [result |-> TRUE, bins |-> [bs EXCEPT ![i] = Insert(bs[i], it).bin],
          calls |-> Append(calls, Call(i, TRUE))]
    ELSE FirstFitLoop([bs EXCEPT ![i] = Insert(bs[i], it).bin], it, i + 1,
                      Append(calls, Call(i, FALSE)))

\* The new bin opened whatever the loop's result was (the "if not result"
\* lost).
FirstFitEndAlways(l, it) == OpenNewBin(l.bins, l.calls, it, "None")

\* if not result: open a new bin and insert there
FirstFitEnd(l, it) ==
    IF ~l.result THEN OpenNewBin(l.bins, l.calls, it, "None")
    ELSE Outcome(l.bins, l.calls, FALSE, "None")

\* _bin_first_fit
bin_first_fit(bs, it) == FirstFitEnd(FirstFitLoop(bs, it, 1, << >>), it)

\* The guard at the head of _bin_best_fit: item_fits.
item_fits(it) ==
    \/ it.width <= bin_width \/ it.height >= bin_height
    \/ rotation /\ (it.height <= bin_width \/ it.width >= bin_height)

\* The skyline branch's queries in the order the loops make them: for every
\* bin, for every segment, the item as given and then turned.
SkylineQueries(bs, it) ==
    LET OfBin(b) ==
            LET n == Len(bs[b].skyline)
            IN  [q \in 1..(2 * n) |->
                    LET i == (q + 1) \div 2
                        f == IF q % 2 = 1
                             THEN check_fit(bs[b], it.width, it.height, i)
                             ELSE check_fit(bs[b], it.height, it.width, i)
                    IN  [bin |-> b, fits |-> f.fits, y |-> f.y]]
        Flat[b \in 0..Len(bs)] == IF b = 0 THEN << >> ELSE Flat[b - 1] \o OfBin(b)
    IN  Flat[Len(bs)]

RECURSIVE SkylineBest(_, _, _)
\* best_bin after the skyline loops; bin 0 stands for None, and then best_y
\* is float('inf'), below which every y lies.
SkylineBest(qs, k, best) ==
    IF k > Len(qs) THEN best
    ELSE SkylineBest(qs, k + 1,
            IF qs[k].fits /\ (best.bin = 0 \/ qs[k].y < best.y)
            THEN [bin |-> qs[k].bin, y |-> qs[k].y]
            ELSE best)

\* The bin's candidate in the guillotine / maximal_rectangle branch: the
\* index of the first free rectangle the item fits (best_in_bin), 0 for None.
best_in_bin(b, it) == FirstFittingRect(b.freerects, it)

\* One pass of the loop over the bins: bin b at position i, whose
\* candidate is its k-th free rectangle, against the best so far.
RectBetter(b, i, k, best) ==
    IF k = 0 THEN best
    ELSE IF best.index = 0 \/ RectArea(b.freerects[k]) < best.area
    THEN [index |-> i, area |-> RectArea(b.freerects[k])]
    ELSE best

RECURSIVE RectBest(_, _, _, _)
\* best_rect / best_bin_index after the loop over the bins; index 0 stands
\* for None.
RectBest(bs, it, i, best) ==
    IF i > Len(bs) THEN best
    ELSE RectBest(bs, it, i + 1, RectBetter(bs[i], i, best_in_bin(bs[i], it), best))

\* The bin the guillotine / maximal_rectangle branch inserts into:
\* self.bins[i], where i is what the loop variable was left at.
RectTarget(bs, it) == Len(bs)

\* The area the shelf branch scores a bin with; 0 stands for None, which
\* "if area and ..." treats like 0.
ShelfScoreAt(b, it, k) ==
    IF \/ it.width <= bin_width /\ it.height <= b.available_height
       \/ it.height <= bin_width /\ it.width <= b.available_height
    THEN bin_width * b.available_height
    ELSE IF k > 0 THEN ShelfArea(b.shelves[k]) ELSE 0

ShelfScore(b, it) ==
    ShelfScoreAt(b, it, FirstFittingShelf(b.shelves, it))

\* One pass of the shelf loop: if area and area < best_area.
ShelfBetter(i, area, best) ==
    IF area /= 0 /\ (best.bin = 0 \/ area < best.area)
    THEN [bin |-> i, area |-> area]
    ELSE best

RECURSIVE ShelfBest(_, _, _, _)
\* best_bin after the shelf loop; bin 0 stands for None (best_area inf).
ShelfBest(bs, it, i, best) ==
    IF i > Len(bs) THEN best
    ELSE ShelfBest(bs, it, i + 1, ShelfBetter(i, ShelfScore(bs[i], it), best))

\* The bin the scoring of _bin_best_fit hands the insert to, 0 when it
\* selects none and a new bin is opened.
Selected(bs, it) ==
    CASE algorithm = "skyline" ->
            SkylineBest(SkylineQueries(bs, it), 1, [bin |-> 0, y |-> 0]).bin
      [] algorithm \in { "guillotine", "maximal_rectangle" } ->
            IF RectBest(bs, it, 1, [index |-> 0, area |-> 0]).index /= 0
            THEN RectTarget(bs, it) ELSE 0
      [] algorithm = "shelf" ->
            ShelfBest(bs, it, 1, [bin |-> 0, area |-> 0]).bin

\* _bin_best_fit
\* _bin_best_fit once the scoring selected bin sel (0: none).
BestFitInsert(bs, it, sel) ==
    IF sel /= 0 THEN InsertInto(bs, sel, it) ELSE OpenNewBin(bs, << >>, it, TRUE)

\* The guard looked at only after the scoring and the insert.
bin_best_fit_late_guard(bs, it) ==
    [BestFitInsert(bs, it, Selected(bs, it)) EXCEPT !.raised = ~item_fits(it)]

\* _bin_best_fit
bin_best_fit(bs, it) ==
    IF ~item_fits(it) THEN Outcome(bs, << >>, TRUE, "None")
    ELSE BestFitInsert(bs, it, Selected(bs, it))

\* self.bin_sel_algo(item)
bin_sel(bs, it) ==
    IF bin_sel_algo = "bin_first_fit" THEN bin_first_fit(bs, it) ELSE bin_best_fit(bs, it)

---------------------------------------------------------------------------
(* The state machine. *)

\* last before any policy invocation: no item has id 0.
NoInvocation ==
    [item |-> [id |-> 0, width |-> 0, height |-> 0], before |-> << >>,
     calls |-> << >>, raised |-> FALSE]

\* BinManager.__init__
Init ==
    /\ \E size \in BinSizes : bin_width = size[1] /\ bin_height = size[2]
    /\ bin_sel_algo \in Policies
    /\ algorithm \in Algorithms
    /\ rotation \in BOOLEAN
    /\ sorting \in BOOLEAN
    /\ items = << >>
    /\ bins = << bin_factory >>
    /\ submitted = 0
    /\ pc = "idle"
    /\ idx = 0
    /\ executes = 0
    /\ failed = FALSE
    /\ last = NoInvocation

Batches == UNION { [1..n -> ItemSizes] : n \in 1..MaxBatch }

\* add_items(*items)
AddItems ==
    /\ pc = "idle"
    /\ \E batch \in Batches :
        /\ submitted + Len(batch) <= MaxItems
        /\ items' = QueueAfterAdd(items,
                        [k \in 1..Len(batch) |-> Item(submitted + k, batch[k])])
        /\ submitted' = submitted + Len(batch)
    /\ UNCHANGED <<bin_width, bin_height, bin_sel_algo, algorithm, rotation,
                   sorting, bins, pc, idx, executes, failed, last>>

\* execute is called: the for-loop starts at the head of self.items.
ExecuteCall ==
    /\ pc = "idle"
    /\ executes < MaxExecutes
    /\ pc' = "execute"
    /\ idx' = 1
    /\ executes' = executes + 1
    /\ UNCHANGED <<bin_width, bin_height, bin_sel_algo, algorithm, rotation,
                   sorting, items, bins, submitted, failed, last>>

\* One pass of execute's loop: self.bin_sel_algo(item).  An exception of the
\* policy ends the execute call.
ExecuteItem ==
    /\ pc = "execute"
    /\ idx <= Len(items)
    /\ \E out \in { bin_sel(bins, items[idx]) } :
           /\ bins' = out.bins
           /\ last' = [item |-> items[idx], before |-> bins,
                       calls |-> out.calls, raised |-> out.raised]
           /\ pc' = IF out.raised THEN "idle" ELSE "execute"
           /\ idx' = IF out.raised THEN idx ELSE idx + 1
           /\ failed' = (failed \/ out.raised)
    /\ UNCHANGED <<bin_width, bin_height, bin_sel_algo, algorithm, rotation,
                   sorting, items, submitted, executes>>

\* The loop is through: execute returns.
ExecuteReturn ==
    /\ pc = "execute"
    /\ idx > Len(items)
    /\ pc' = "idle"
    /\ UNCHANGED <<bin_width, bin_height, bin_sel_algo, algorithm, rotation,
                   sorting, items, bins, submitted, idx, executes, failed, last>>

Next == AddItems \/ ExecuteCall \/ ExecuteItem \/ ExecuteReturn

Spec == Init /\ [][Next]_vars

---------------------------------------------------------------------------
(* Notions the properties are stated with. *)

\* A policy invocation has happened, and last describes it.
Invoked == last.item.id /= 0

\* How often bin b holds item id.
Holds(b, id) == Cardinality({ k \in 1..Len(b.items) : b.items[k] = id })

\* The bins of bs that hold item id.
HoldersOf(bs, id) == { b \in 1..Len(bs) : Holds(bs[b], id) > 0 }

\* s is a prefix of t.
IsPrefix(s, t) == Len(s) <= Len(t) /\ \A k \in 1..Len(s) : s[k] = t[k]

\* execute's loop has gone through the whole queue and is about to return.
LoopDone == pc = "execute" /\ idx > Len(items)

\* The last invocation's final insert call succeeded on bin j.
PlacedIn(j) ==
    /\ Invoked
    /\ last.calls /= << >>
    /\ last.calls[Len(last.calls)] = Call(j, TRUE)

---------------------------------------------------------------------------
(* C7: sort order and stability of the pending queue. *)

\* C7.  After any sequence of add_items calls the queue holds every
\* submitted item; with sorting enabled it is in non-increasing order of
\* width*height and items of equal area are in submission order (also across
\* batches); with sorting disabled it is exactly the submission order.
C7_QueueOrder ==
    /\ Len(items) = submitted
    /\ { items[k].id : k \in 1..Len(items) } = 1..submitted
    /\ sorting =>
          \A i, j \in 1..Len(items) :
              i < j => /\ Area(items[i]) >= Area(items[j])
                       /\ Area(items[i]) = Area(items[j]) => items[i].id < items[j].id
    /\ ~sorting => \A k \in 1..Len(items) : items[k].id = k

\* A larger item submitted second went to the head, and the first and the
\* third item, of equal area and from different batches, kept their order.
C7_Witness ==
    /\ sorting
    /\ Len(items) >= 3
    /\ items[1].id = 2 /\ items[2].id = 1 /\ items[3].id = 3
    /\ Area(items[2]) = Area(items[3])
    /\ items[2].width /= items[3].width

---------------------------------------------------------------------------
(* C4: first-fit monotonicity. *)

\* C4.  Under first-fit, when an item is placed in the bin at position j,
\* the insert calls of that invocation are exactly one per bin 1 .. j, in
\* that order, refused by every bin before j and accepted by bin j; and no
\* bin before j, as it was when the invocation began, accepts the item.
C4_FirstFitMonotone ==
    (bin_sel_algo = "bin_first_fit" /\ Invoked) =>
        \A j \in 1..Len(bins) :
            PlacedIn(j) =>
                /\ last.calls = [i \in 1..j |-> Call(i, i = j)]
                /\ \A i \in 1..(j - 1) :
                       i <= Len(last.before) => ~Insert(last.before[i], last.item).ok

\* An item went into the second bin, which was open already, after the
\* first bin refused it.
C4_Witness ==
    /\ bin_sel_algo = "bin_first_fit"
    /\ PlacedIn(2)
    /\ Len(last.before) >= 2
    /\ last.calls[1] = Call(1, FALSE)

---------------------------------------------------------------------------
(* C8: an oversize error changes nothing. *)

\* C8.  A step in which _bin_best_fit raises the oversize error makes no
\* backend insert call and leaves the bin list, with every bin's state and
\* content, as it was before the item was processed.
C8_OversizeChangesNothing ==
    [][ (pc = "execute" /\ idx <= Len(items) /\ last'.raised)
            => (bins' = bins /\ last'.calls = << >> /\ last'.before = bins) ]_vars

\* The oversize error was raised for an item after another item had been
\* placed.
C8_Witness ==
    /\ last.raised
    /\ pc = "idle"
    /\ \E b \in 1..Len(bins) : bins[b].items /= << >>

---------------------------------------------------------------------------
(* C9: the bin list is append-only and grows by at most one bin per item. *)

\* The bins of bs are still there in bs2, in place and order: each has kept
\* what it held and at most gained items.
BinsKept(bs, bs2) ==
    /\ Len(bs) <= Len(bs2)
    /\ \A b \in 1..Len(bs) : IsPrefix(bs[b].items, bs2[b].items)

\* C9.  A manager starts with exactly one bin; every step keeps the existing
\* bins in place and order and appends at most one bin, only a policy
\* invocation appends one, and under first-fit an invocation appends a bin
\* exactly when every open bin refuses the item.
C9_AppendOnly ==
    /\ Len(bins) = 1
    /\ [][ /\ BinsKept(bins, bins')
           /\ Len(bins') <= Len(bins) + 1
           /\ Len(bins') > Len(bins) => (pc = "execute" /\ idx <= Len(items))
           /\ (pc = "execute" /\ idx <= Len(items) /\ bin_sel_algo = "bin_first_fit")
                 => ( Len(bins') = Len(bins) + 1
                        <=> \A b \in 1..Len(bins) : ~Insert(bins[b], items[idx]).ok )
        ]_vars

\* Under first-fit a third bin was opened for an item the two open bins
\* refused, and both kept their items.
C9_Witness ==
    /\ bin_sel_algo = "bin_first_fit"
    /\ Invoked
    /\ Len(last.before) = 2
    /\ Len(bins) = 3
    /\ last.calls = << Call(1, FALSE), Call(2, FALSE), Call(3, TRUE) >>
    /\ bins[1].items /= << >> /\ bins[2].items /= << >>

---------------------------------------------------------------------------
(* Properties the code does not have.  Each is the statement as the        *)
(* specification makes it; the model checker finds a reachable state that  *)
(* violates it.                                                            *)

\* C1.  Conservation: when the first execute has gone through the whole
\* queue without an error, every item of the queue is held by exactly one
\* bin, once.
C1_Conservation ==
    (LoopDone /\ executes = 1 /\ ~failed) =>
        \A k \in 1..Len(items) :
            /\ Cardinality(HoldersOf(bins, items[k].id)) = 1
            /\ \A b \in HoldersOf(bins, items[k].id) : Holds(bins[b], items[k].id) = 1

\* The candidate of bin b for the item in the guillotine and
\* maximal_rectangle scoring: the first free rectangle, in the bin's order,
\* that the item fits (0: none).
Candidate(b, it) ==
    IF \A i \in 1..Len(b.freerects) : ~item_fits_rect(it, b.freerects[i]) THEN 0
    ELSE CHOOSE i \in 1..Len(b.freerects) :
            /\ item_fits_rect(it, b.freerects[i])
            /\ \A j \in 1..(i - 1) : ~item_fits_rect(it, b.freerects[j])

CandidateArea(b, it) == RectArea(b.freerects[Candidate(b, it)])

\* C2.  Best-fit with guillotine or maximal_rectangle: when some open bin
\* has a free rectangle the item fits, the insert call goes to a bin whose
\* candidate has the smallest area of all bins' candidates.
C2_SmallestCandidateBin ==
    ( /\ bin_sel_algo = "bin_best_fit"
      /\ algorithm \in { "guillotine", "maximal_rectangle" }
      /\ Invoked /\ ~last.raised
      /\ \E b \in 1..Len(last.before) : Candidate(last.before[b], last.item) /= 0 )
    => /\ Len(last.calls) = 1
       /\ last.calls[1].bin <= Len(last.before)
       /\ Candidate(last.before[last.calls[1].bin], last.item) /= 0
       /\ \A b \in 1..Len(last.before) :
              Candidate(last.before[b], last.item) /= 0 =>
                  CandidateArea(last.before[last.calls[1].bin], last.item)
                      <= CandidateArea(last.before[b], last.item)

\* The item fits the bin's fixed dimensions as given, or turned when
\* rotation is enabled.
FitsBin(it) ==
    \/ it.width <= bin_width /\ it.height <= bin_height
    \/ rotation /\ it.height <= bin_width /\ it.width <= bin_height

\* C3.  Oversize guard of best-fit: an item that fits the bin's fixed
\* dimensions in no allowed orientation makes _bin_best_fit raise.
C3_OversizeRaises ==
    (bin_sel_algo = "bin_best_fit" /\ Invoked /\ ~FitsBin(last.item)) => last.raised

\* The placements best-fit may consider for the item in the skyline
\* scoring: bin, segment and orientation, turned only with rotation enabled.
AllowedPlacements(bs, it) ==
    { pl \in [bin : 1..Len(bs), seg : 1..bin_width, turned : BOOLEAN] :
        /\ pl.seg <= Len(bs[pl.bin].skyline)
        /\ pl.turned => rotation
        /\ check_fit(bs[pl.bin], IF pl.turned THEN it.height ELSE it.width,
                     IF pl.turned THEN it.width ELSE it.height, pl.seg).fits }

AllowedTop(bs, it, pl) ==
    check_fit(bs[pl.bin], IF pl.turned THEN it.height ELSE it.width,
              IF pl.turned THEN it.width ELSE it.height, pl.seg).y

\* C5.  Best-fit with skyline: the insert call goes to the first bin that
\* achieves the minimum top-y over the allowed placements; when no
\* placement is allowed, no open bin is selected and a new bin is opened.
C5_SkylineMinTop ==
    ( /\ bin_sel_algo = "bin_best_fit" /\ algorithm = "skyline"
      /\ Invoked /\ ~last.raised )
    => /\ last.calls /= << >>
       /\ IF AllowedPlacements(last.before, last.item) = {}
          THEN last.calls[1].bin = Len(last.before) + 1
          ELSE \E pl \in AllowedPlacements(last.before, last.item) :
                  /\ pl.bin = last.calls[1].bin
                  /\ \A q \in AllowedPlacements(last.before, last.item) :
                        \/ AllowedTop(last.before, last.item, pl)
                               < AllowedTop(last.before, last.item, q)
                        \/ /\ AllowedTop(last.before, last.item, pl)
                                  = AllowedTop(last.before, last.item, q)
                           /\ pl.bin <= q.bin

\* C6.  Under best-fit a refusal by the bin the scoring selected is not the
\* end: another insert call follows, on another open bin or on a new one.
C6_RefusalNotFinal ==
    ( /\ bin_sel_algo = "bin_best_fit"
      /\ Invoked /\ ~last.raised
      /\ last.calls /= << >>
      /\ last.calls[1].bin <= Len(last.before)
      /\ ~last.calls[1].ok )
    => Len(last.calls) >= 2

\* C10.  Best-fit with shelf and rotation disabled: the bin the scoring
\* selected has a shelf the item fits, or room for a new shelf for the item
\* as given (item.width <= x and item.height <= available_height).
C10_ShelfCandidateUnrotated ==
    ( /\ bin_sel_algo = "bin_best_fit" /\ algorithm = "shelf" /\ ~rotation
      /\ Invoked /\ ~last.raised
      /\ last.calls /= << >>
      /\ last.calls[1].bin <= Len(last.before) )
    => \/ \E k \in 1..Len(last.before[last.calls[1].bin].shelves) :
              item_fits_shelf(last.item, last.before[last.calls[1].bin].shelves[k])
       \/ /\ last.item.width <= bin_width
          /\ last.item.height <= last.before[last.calls[1].bin].available_height

=============================================================================
